---------------------------- MODULE Spec2Model ----------------------------
(***************************************************************************)
(* Model of node/src/chain_spec.rs of pop-node: derivation of the          *)
(* well-known development identities, the genesis patch built by           *)
(* testnet_genesis, the two chain-spec presets (development_config and     *)
(* local_testnet_config) and the strict parsing of an Extensions document. *)
(***************************************************************************)
EXTENDS Integers, Sequences, FiniteSets, TLC

VARIABLES
    WASM_BINARY,          \* pop_runtime::WASM_BINARY: None, or Some(code blob)
    EXISTENTIAL_DEPOSIT,  \* pop_runtime::EXISTENTIAL_DEPOSIT (value set by the runtime crate)
    SAFE_XCM_VERSION,     \* xcm::prelude::XCM_VERSION (value set by the xcm crate)
    status,               \* "running", or "panicked" once an expect() has aborted the process
    invocations,          \* number of preset-builder calls made so far
    chain_specs,          \* the chain specs returned so far, in call order
    args,                 \* the arguments of the testnet_genesis call under test
    genesis,              \* None, or the value that call returned
    document,             \* the Extensions document handed to the deserializer
    parsed                \* None, or the deserializer's result

vars == <<WASM_BINARY, EXISTENTIAL_DEPOSIT, SAFE_XCM_VERSION, status, invocations,
          chain_specs, args, genesis, document, parsed>>

-----------------------------------------------------------------------------
(* Bounds of the model *)

\* longest invulnerables list handed to testnet_genesis
MaxLen == 2
\* most preset-builder calls made by one process
MaxCalls == 3
\* most fields of an Extensions document
MaxFields == 3

-----------------------------------------------------------------------------
(* Values *)

None == [none |-> TRUE]
Some(v) == [some |-> v]

\* const PARA_ID: u32 = 9090
PARA_ID == 9090

\* an id other than PARA_ID, to exercise testnet_genesis on any id
OtherParaId == 2000

\* the development phrase every "//Seed" secret URI derives from
DEV_PHRASE == "bottom drive obey lake curtain smoke basket hold race lonely fit walk"

-----------------------------------------------------------------------------
(* Seed Key Deriver and Account Identity Resolver *)

\* Pair::from_string(suri, None): the phrase is absent from "//Seed", so the
\* pair is the hard derivation of the development phrase along the path.
\* The bare "//" names no junction and is rejected.
from_string(suri) ==
    IF suri = "//"
    THEN [err |-> "InvalidFormat"]
    ELSE [ok |-> [phrase |-> DEV_PHRASE, path |-> suri]]

\* .expect("static values are valid; qed").public(): the public half of the pair
get_from_seed(TPublic, seed) ==
    LET pair == from_string("//" \o seed).ok
    IN  [scheme |-> TPublic, public_of |-> pair]

\* AuraId is the sr25519 application key of the aura pallet
get_collator_keys_from_seed(seed) ==
    [aura_id |-> get_from_seed("sr25519", seed)]

\* AccountPublic::from(public).into_account(): AccountId32 over the key's bytes
get_account_id_from_seed(TPublic, seed) ==
    [account_id32 |-> get_from_seed(TPublic, seed)]

-----------------------------------------------------------------------------
(* JSON values, as serde_json::json! serializes them *)

Null == [null |-> TRUE]

\* AccountId32 and the sr25519 public keys serialize as the SS58 string of their bytes
AccountJson(acc) == [ss58 |-> acc.account_id32.public_of]
AuraJson(aura) == [ss58 |-> aura.aura_id.public_of]

\* a u32 serializes as the number
NumberJson(n) == n

\* Option<T>: Some(v) serializes as v does, None as null
OptionNumberJson(o) == IF o = None THEN Null ELSE NumberJson(o.some)
OptionAccountJson(o) == IF o = None THEN Null ELSE AccountJson(o.some)

\* ParaId is a newtype over u32 and serializes as the number
ParaIdFrom(n) == [para_id |-> n]
ParaIdJson(id) == id.para_id

\* Generate the session keys from individual elements.
pop_session_keys(keys) == [aura |-> keys]

SessionKeysJson(sk) == [aura |-> AuraJson(sk.aura)]

-----------------------------------------------------------------------------
(* Genesis State Builder *)

\* mutant: every entry projects the first pair's account
InvulnerableAccounts_first(invulnerables) ==
    [i \in 1..Len(invulnerables) |-> AccountJson(invulnerables[1][1])]

\* mutant: the accounts come out in reverse order
InvulnerableAccounts_reversed(invulnerables) ==
    [i \in 1..Len(invulnerables) |->
        AccountJson(invulnerables[Len(invulnerables) + 1 - i][1])]

\* invulnerables.iter().cloned().map(|(acc, _)| acc).collect::<Vec<_>>()
InvulnerableAccounts(invulnerables) ==
    [i \in 1..Len(invulnerables) |-> AccountJson(invulnerables[i][1])]

\* mutant: the last pair gets no session keys
SessionKeyTriples_short(invulnerables) ==
    [i \in 1..(Len(invulnerables) - 1) |->
        <<AccountJson(invulnerables[i][1]),
          AccountJson(invulnerables[i][1]),
          SessionKeysJson(pop_session_keys(invulnerables[i][2]))>>]

\* invulnerables.into_iter().map(|(acc, aura)| (acc.clone(), acc, pop_session_keys(aura)))
SessionKeyTriples(invulnerables) ==
    [i \in 1..Len(invulnerables) |->
        <<AccountJson(invulnerables[i][1]),                     \* account id
          AccountJson(invulnerables[i][1]),                     \* validator id
          SessionKeysJson(pop_session_keys(invulnerables[i][2]))>>]  \* session keys

\* mutant: sudo goes to the first invulnerable, not to root
testnet_genesis_sudo_first(invulnerables, root, id) ==
    [parachainInfo |-> [parachainId |-> ParaIdJson(id)],
     collatorSelection |->
        [invulnerables |-> InvulnerableAccounts(invulnerables),
         candidacyBond |-> EXISTENTIAL_DEPOSIT * 16],
     session |-> [keys |-> SessionKeyTriples(invulnerables)],
     polkadotXcm |-> [safeXcmVersion |-> OptionNumberJson(Some(SAFE_XCM_VERSION))],
     sudo |-> [key |-> OptionAccountJson(
                  Some(IF invulnerables = <<>> THEN root ELSE invulnerables[1][1]))]]

testnet_genesis(invulnerables, root, id) ==
    [parachainInfo |-> [parachainId |-> ParaIdJson(id)],
     collatorSelection |->
        [invulnerables |-> InvulnerableAccounts(invulnerables),
         candidacyBond |-> EXISTENTIAL_DEPOSIT * 16],
     session |-> [keys |-> SessionKeyTriples(invulnerables)],
     polkadotXcm |-> [safeXcmVersion |-> OptionNumberJson(Some(SAFE_XCM_VERSION))],
     sudo |-> [key |-> OptionAccountJson(Some(root))]]

-----------------------------------------------------------------------------
(* Chain Spec Assembler *)

\* the properties map both presets fill in
TokenProperties ==
    [tokenSymbol |-> "UNIT", tokenDecimals |-> 12, ss58Format |-> 42]

\* mutant: the extensions name another parachain than the genesis patch
PresetExtensions_other_para == [relay_chain |-> "rococo-local", para_id |-> OtherParaId]

\* Extensions { relay_chain: "rococo-local".into(), para_id: PARA_ID }
PresetExtensions == [relay_chain |-> "rococo-local", para_id |-> PARA_ID]

\* the initial collators of both presets
PresetCollators ==
    << <<get_account_id_from_seed("sr25519", "Alice"), get_collator_keys_from_seed("Alice")>>,
       <<get_account_id_from_seed("sr25519", "Bob"), get_collator_keys_from_seed("Bob")>> >>

\* mutant: root is Bob's account
PresetGenesis_root_bob ==
    testnet_genesis(PresetCollators,
                    get_account_id_from_seed("sr25519", "Bob"),
                    ParaIdFrom(PARA_ID))

\* testnet_genesis(vec![Alice, Bob], Alice, PARA_ID.into())
PresetGenesis ==
    testnet_genesis(PresetCollators,
                    get_account_id_from_seed("sr25519", "Alice"),
                    ParaIdFrom(PARA_ID))

\* ChainSpec::builder(code, extensions): a builder with nothing optional set
ChainSpecBuilder(code, extensions) ==
    [code |-> code,
     extensions |-> extensions,
     name |-> "Development",
     id |-> "dev",
     chain_type |-> "Local",
     genesis_build_action |-> [Full |-> Null],
     protocol_id |-> None,
     properties |-> None]

with_name(b, name) == [b EXCEPT !.name = name]
with_id(b, id) == [b EXCEPT !.id = id]
with_chain_type(b, chain_type) == [b EXCEPT !.chain_type = chain_type]
with_genesis_config_patch(b, patch) == [b EXCEPT !.genesis_build_action = [Patch |-> patch]]
with_protocol_id(b, protocol_id) == [b EXCEPT !.protocol_id = Some(protocol_id)]
with_properties(b, properties) == [b EXCEPT !.properties = Some(properties)]

\* .build(): the chain spec holding what the builder collected
build(b) ==
    [name |-> b.name,
     id |-> b.id,
     chain_type |-> b.chain_type,
     protocol_id |-> b.protocol_id,
     properties |-> b.properties,
     extensions |-> b.extensions,
     genesis |-> [code |-> b.code, action |-> b.genesis_build_action]]

\* mutant: the development preset hands its properties map to the builder
DevelopmentChainSpec_with_properties(code) ==
    LET properties == TokenProperties
        b0 == ChainSpecBuilder(code, PresetExtensions)
        b1 == with_name(b0, "Pop Network Development")
        b2 == with_id(b1, "pop-dev")
        b3 == with_chain_type(b2, "Development")
        b4 == with_genesis_config_patch(b3, PresetGenesis)
        b5 == with_properties(b4, properties)
    IN  build(b5)

\* the chain spec development_config returns for the runtime blob code;
\* the properties map it fills in is a local that no builder call receives
DevelopmentChainSpec(code) ==
    LET properties == TokenProperties
        b0 == ChainSpecBuilder(code, PresetExtensions)
        b1 == with_name(b0, "Pop Network Development")
        b2 == with_id(b1, "pop-dev")
        b3 == with_chain_type(b2, "Development")
        b4 == with_genesis_config_patch(b3, PresetGenesis)
    IN  build(b4)

\* mutant: the id carries the number of calls made before this one
LocalTestnetChainSpec_counted(code) ==
    LET properties == TokenProperties
        b0 == ChainSpecBuilder(code, PresetExtensions)
        b1 == with_name(b0, "Pop Network Local Testnet")
        b2 == with_id(b1, IF invocations = 0 THEN "pop-local" ELSE "pop-local-again")
        b3 == with_chain_type(b2, "Local")
        b4 == with_genesis_config_patch(b3, PresetGenesis)
        b5 == with_protocol_id(b4, "pop-local")
        b6 == with_properties(b5, properties)
    IN  build(b6)

\* the chain spec local_testnet_config returns for the runtime blob code
LocalTestnetChainSpec(code) ==
    LET properties == TokenProperties
        b0 == ChainSpecBuilder(code, PresetExtensions)
        b1 == with_name(b0, "Pop Network Local Testnet")
        b2 == with_id(b1, "pop-local")
        b3 == with_chain_type(b2, "Local")
        b4 == with_genesis_config_patch(b3, PresetGenesis)
        b5 == with_protocol_id(b4, "pop-local")
        b6 == with_properties(b5, properties)
    IN  build(b6)

\* mutant: without a runtime blob the chain spec is built around empty code
development_config_empty_code ==
    /\ status = "running"
    /\ invocations < MaxCalls
    /\ invocations' = invocations + 1
    /\ chain_specs' = Append(chain_specs,
          [preset |-> "development",
           spec |-> DevelopmentChainSpec(IF WASM_BINARY = None THEN "" ELSE WASM_BINARY.some)])
    /\ UNCHANGED <<WASM_BINARY, EXISTENTIAL_DEPOSIT, SAFE_XCM_VERSION, status,
                   args, genesis, document, parsed>>

\* pop_runtime::WASM_BINARY.expect(..) panics on None; the panic ends the
\* process, so nothing is returned and nothing runs after it.
development_config ==
    /\ status = "running"
    /\ invocations < MaxCalls
    /\ invocations' = invocations + 1
    /\ \/ /\ WASM_BINARY = None
          /\ status' = "panicked"
          /\ UNCHANGED chain_specs
       \/ /\ WASM_BINARY # None
          /\ chain_specs' = Append(chain_specs,
                [preset |-> "development",
                 spec |-> DevelopmentChainSpec(WASM_BINARY.some)])
          /\ UNCHANGED status
    /\ UNCHANGED <<WASM_BINARY, EXISTENTIAL_DEPOSIT, SAFE_XCM_VERSION,
                   args, genesis, document, parsed>>

local_testnet_config ==
    /\ status = "running"
    /\ invocations < MaxCalls
    /\ invocations' = invocations + 1
    /\ \/ /\ WASM_BINARY = None
          /\ status' = "panicked"
          /\ UNCHANGED chain_specs
       \/ /\ WASM_BINARY # None
          /\ chain_specs' = Append(chain_specs,
                [preset |-> "local_testnet",
                 spec |-> LocalTestnetChainSpec(WASM_BINARY.some)])
          /\ UNCHANGED status
    /\ UNCHANGED <<WASM_BINARY, EXISTENTIAL_DEPOSIT, SAFE_XCM_VERSION,
                   args, genesis, document, parsed>>

\* a call of testnet_genesis on the arguments under test
CallTestnetGenesis ==
    /\ status = "running"
    /\ genesis = None
    /\ genesis' = Some(testnet_genesis(args.invulnerables, args.root, args.id))
    /\ UNCHANGED <<WASM_BINARY, EXISTENTIAL_DEPOSIT, SAFE_XCM_VERSION, status,
                   invocations, chain_specs, args, document, parsed>>

-----------------------------------------------------------------------------
(* Extensions: #[derive(Deserialize)] #[serde(deny_unknown_fields)] *)

\* mutant: the attribute is missing, so serde skips the fields it does not know
ignore_unknown_fields == FALSE

\* #[serde(deny_unknown_fields)] is set on Extensions
deny_unknown_fields == TRUE

Ok(v) == [ok |-> v]
Err(e) == [err |-> e]

\* a JSON string deserializes into relay_chain: String
IsString(value) == "string" \in DOMAIN value

\* a JSON number deserializes into para_id: u32 when it is in range; the
\* numbers of the model all lie below u32::MAX, so only the sign can be wrong
IsU32(value) == "number" \in DOMAIN value /\ value.number >= 0

\* The derived visitor: the fields of the document in document order, each
\* key matched against the struct's fields; then the fields never seen.
RECURSIVE visit_map(_, _, _)
visit_map(entries, relay_chain, para_id) ==
    IF entries = <<>>
    THEN IF relay_chain = None THEN Err("missing field relay_chain")
         ELSE IF para_id = None THEN Err("missing field para_id")
         ELSE Ok([relay_chain |-> relay_chain.some, para_id |-> para_id.some])
    ELSE LET e == Head(entries)
         IN  CASE e.key = "relay_chain" ->
                    IF relay_chain # None THEN Err("duplicate field relay_chain")
                    ELSE IF ~IsString(e.value) THEN Err("invalid type")
                    ELSE visit_map(Tail(entries), Some(e.value.string), para_id)
               [] e.key = "para_id" ->
                    IF para_id # None THEN Err("duplicate field para_id")
                    ELSE IF ~IsU32(e.value) THEN Err("invalid type")
                    ELSE visit_map(Tail(entries), relay_chain, Some(e.value.number))
               [] OTHER ->
                    IF deny_unknown_fields THEN Err("unknown field")
                    ELSE visit_map(Tail(entries), relay_chain, para_id)

\* Extensions::deserialize on a JSON object
DeserializeExtensions(doc) == visit_map(doc, None, None)

ParseExtensions ==
    /\ parsed = None
    /\ parsed' = Some(DeserializeExtensions(document))
    /\ UNCHANGED <<WASM_BINARY, EXISTENTIAL_DEPOSIT, SAFE_XCM_VERSION, status,
                   invocations, chain_specs, args, genesis, document>>

-----------------------------------------------------------------------------
(* Inputs *)

SeqsUpTo(S, n) == UNION {[1..k -> S] : k \in 0..n}

\* runtime code blobs a build can embed
Blobs == {"pop_runtime.wasm", "pop_runtime.compact.wasm"}

\* values the runtime crates may give the two imported constants
Deposits == {1, 1000000}
XcmVersions == {3, 4}

CollatorSeeds == {"Alice", "Bob"}
RootSeeds == {"Alice", "Bob", "Charlie"}

InvulnerablePairs ==
    {<<get_account_id_from_seed("sr25519", a), get_collator_keys_from_seed(k)>> :
        a \in CollatorSeeds, k \in CollatorSeeds}

GenesisArgs ==
    [invulnerables : SeqsUpTo(InvulnerablePairs, MaxLen),
     root : {get_account_id_from_seed("sr25519", s) : s \in RootSeeds},
     id : {ParaIdFrom(PARA_ID), ParaIdFrom(OtherParaId)}]

\* the arguments both presets pass
PresetArgs ==
    [invulnerables |-> PresetCollators,
     root |-> get_account_id_from_seed("sr25519", "Alice"),
     id |-> ParaIdFrom(PARA_ID)]

FieldNames == {"relay_chain", "para_id", "relayChain"}
JsonValues == {[string |-> "rococo-local"], [number |-> PARA_ID], [number |-> -1]}
Documents == SeqsUpTo([key : FieldNames, value : JsonValues], MaxFields)

-----------------------------------------------------------------------------
(* Specifications *)

RuntimeInit ==
    /\ WASM_BINARY \in {None} \cup {Some(b) : b \in Blobs}
    /\ EXISTENTIAL_DEPOSIT \in Deposits
    /\ SAFE_XCM_VERSION \in XcmVersions
    /\ status = "running"
    /\ invocations = 0
    /\ chain_specs = <<>>
    /\ genesis = None
    /\ parsed = None

\* the presets, and testnet_genesis on any arguments
Init ==
    /\ RuntimeInit
    /\ args \in GenesisArgs
    /\ document = <<>>

Next ==
    \/ development_config
    \/ local_testnet_config
    \/ CallTestnetGenesis

Spec == Init /\ [][Next]_vars

\* the deserializer on any document
InitParse ==
    /\ RuntimeInit
    /\ args = PresetArgs
    /\ document \in Documents

NextParse == ParseExtensions

SpecParse == InitParse /\ [][NextParse]_vars

-----------------------------------------------------------------------------
(* Properties *)

\* the genesis patch a built chain spec carries
PatchOf(entry) == entry.spec.genesis.action.Patch

Built(preset) == {i \in 1..Len(chain_specs) : chain_specs[i].preset = preset}

BothPresetsBuilt == Built("development") # {} /\ Built("local_testnet") # {}

\* the account component of each session.keys triple
KeyAccounts(g) == [i \in 1..Len(g.session.keys) |-> g.session.keys[i][1]]

NoRepeat(seq) == \A i, j \in 1..Len(seq) : seq[i] = seq[j] => i = j

\* the SS58 value of the account the secret URI "//Alice" derives
AliceJson == [ss58 |-> [phrase |-> DEV_PHRASE, path |-> "//Alice"]]

\* C1: in every chain spec either preset builds, parachainInfo.parachainId of
\* the genesis patch equals Extensions.para_id, and both are 9090.
C1_ParaIdConsistent ==
    \A i \in 1..Len(chain_specs) :
        /\ "Patch" \in DOMAIN chain_specs[i].spec.genesis.action
        /\ PatchOf(chain_specs[i]).parachainInfo.parachainId
              = chain_specs[i].spec.extensions.para_id
        /\ chain_specs[i].spec.extensions.para_id = 9090

C1_Witness == BothPresetsBuilt

\* C2: testnet_genesis returns as many session.keys and as many
\* collatorSelection.invulnerables as it was given invulnerables, whatever
\* the list; in the chain specs of both presets that number is 2.
C2_Cardinality ==
    /\ genesis # None =>
          /\ Len(genesis.some.session.keys) = Len(args.invulnerables)
          /\ Len(genesis.some.collatorSelection.invulnerables) = Len(args.invulnerables)
    /\ \A i \in 1..Len(chain_specs) :
          /\ Len(PatchOf(chain_specs[i]).session.keys) = 2
          /\ Len(PatchOf(chain_specs[i]).collatorSelection.invulnerables) = 2

C2_Witness ==
    /\ genesis # None
    /\ Len(args.invulnerables) >= 2
    /\ BothPresetsBuilt

\* C3 as claimed: whatever list testnet_genesis is given, no account occurs
\* twice in collatorSelection.invulnerables or among the accounts of session.keys.
C3_NoRepeatAnyInput ==
    genesis # None =>
        /\ NoRepeat(genesis.some.collatorSelection.invulnerables)
        /\ NoRepeat(KeyAccounts(genesis.some))

InputAccounts == [i \in 1..Len(args.invulnerables) |-> args.invulnerables[i][1]]

\* C3 as amended: when the accounts of the list given to testnet_genesis are
\* pairwise distinct, no account occurs twice in collatorSelection.invulnerables
\* or among the accounts of session.keys; this is so in both presets.
C3_NoRepeatDistinctInput ==
    /\ (genesis # None /\ NoRepeat(InputAccounts)) =>
          /\ NoRepeat(genesis.some.collatorSelection.invulnerables)
          /\ NoRepeat(KeyAccounts(genesis.some))
    /\ \A i \in 1..Len(chain_specs) :
          /\ NoRepeat(PatchOf(chain_specs[i]).collatorSelection.invulnerables)
          /\ NoRepeat(KeyAccounts(PatchOf(chain_specs[i])))

C3_Witness ==
    /\ genesis # None
    /\ Len(args.invulnerables) >= 2
    /\ NoRepeat(InputAccounts)
    /\ BothPresetsBuilt

\* C4 as claimed: sudo.key, when present, is the account of one of the
\* (account, key) pairs testnet_genesis was given.
C4_SudoAmongInvulnerables ==
    (genesis # None /\ genesis.some.sudo.key # Null) =>
        \E i \in 1..Len(args.invulnerables) :
            genesis.some.sudo.key = AccountJson(args.invulnerables[i][1])

\* C4 as amended: sudo.key is always present and is the root account
\* testnet_genesis was given, whether or not root is one of the invulnerables.
C4_SudoIsRoot ==
    genesis # None =>
        /\ genesis.some.sudo.key # Null
        /\ genesis.some.sudo.key = AccountJson(args.root)

C4_Witness ==
    /\ genesis # None
    /\ Len(args.invulnerables) >= 1
    /\ \A i \in 1..Len(args.invulnerables) : args.invulnerables[i][1] # args.root

\* C5: in the chain specs of both presets sudo.key is the account derived
\* from seed "Alice", which is also the first of collatorSelection.invulnerables.
C5_SudoIsAlice ==
    \A i \in 1..Len(chain_specs) :
        /\ PatchOf(chain_specs[i]).sudo.key = AliceJson
        /\ PatchOf(chain_specs[i]).collatorSelection.invulnerables[1] = AliceJson

C5_Witness ==
    /\ BothPresetsBuilt
    /\ invocations >= 2

\* C6: a local-testnet chain spec has chain type Local, the properties
\* {tokenSymbol: "UNIT", tokenDecimals: 12, ss58Format: 42} and a non-empty
\* protocol id; a development chain spec has chain type Development and
\* neither properties nor a protocol id.
C6_PresetMetadata ==
    \A i \in 1..Len(chain_specs) :
        LET cs == chain_specs[i].spec
        IN  /\ chain_specs[i].preset = "local_testnet" =>
                  /\ cs.chain_type = "Local"
                  /\ cs.properties =
                        Some([tokenSymbol |-> "UNIT", tokenDecimals |-> 12, ss58Format |-> 42])
                  /\ cs.protocol_id # None
                  /\ cs.protocol_id.some # ""
            /\ chain_specs[i].preset = "development" =>
                  /\ cs.chain_type = "Development"
                  /\ cs.properties = None
                  /\ cs.protocol_id = None

C6_Witness ==
    /\ BothPresetsBuilt
    /\ Len(chain_specs) >= 2

\* a chain spec with nothing missing: name, id, runtime code, genesis patch
Complete(cs) ==
    /\ cs.name # ""
    /\ cs.id # ""
    /\ Some(cs.genesis.code) = WASM_BINARY
    /\ "Patch" \in DOMAIN cs.genesis.action

\* C7: without a runtime blob a preset builder call ends in a panic, returns
\* no chain spec and is the last call made; with a blob every call returns a
\* complete chain spec. Each call ends in one of the two.
C7_FatalWithoutWasm ==
    /\ WASM_BINARY = None =>
          /\ chain_specs = <<>>
          /\ invocations > 0 => status = "panicked"
    /\ status = "panicked" => (WASM_BINARY = None /\ invocations = 1)
    /\ WASM_BINARY # None =>
          /\ Len(chain_specs) = invocations
          /\ \A i \in 1..Len(chain_specs) : Complete(chain_specs[i].spec)

C7_Witness ==
    /\ status = "panicked"
    /\ WASM_BINARY = None
    /\ chain_specs = <<>>

FieldSet(doc) == {doc[i].key : i \in 1..Len(doc)}

\* C8: an Extensions document parses only if its fields are exactly
\* relay_chain and para_id; one with any other field is rejected.
C8_StrictSchema ==
    parsed # None =>
        /\ "ok" \in DOMAIN parsed.some => FieldSet(document) = {"relay_chain", "para_id"}
        /\ FieldSet(document) \ {"relay_chain", "para_id"} # {} => "err" \in DOMAIN parsed.some

C8_Witness ==
    /\ parsed # None
    /\ "err" \in DOMAIN parsed.some
    /\ {"relay_chain", "para_id"} \subseteq FieldSet(document)
    /\ FieldSet(document) \ {"relay_chain", "para_id"} # {}
    /\ \A i \in 1..Len(document) :
          /\ document[i].key = "relay_chain" => IsString(document[i].value)
          /\ document[i].key = "para_id" => IsU32(document[i].value)

C10_OrderPreserved ==
    genesis # None =>
        \A i \in 1..Len(args.invulnerables) :
            LET a == [ss58 |-> args.invulnerables[i][1].account_id32.public_of]
                k == [ss58 |-> args.invulnerables[i][2].aura_id.public_of]
            IN  /\ genesis.some.collatorSelection.invulnerables[i] = a
                /\ genesis.some.session.keys[i] = <<a, a, [aura |-> k]>>

C10_Witness ==
    /\ genesis # None
    /\ Len(args.invulnerables) >= 2
    /\ args.invulnerables[1][1] = get_account_id_from_seed("sr25519", "Bob")
    /\ args.invulnerables[2][1] = get_account_id_from_seed("sr25519", "Alice")
    /\ args.invulnerables[1][2] = get_collator_keys_from_seed("Alice")

=============================================================================
